---------------------------- MODULE Spec2Model ----------------------------
(***************************************************************************)
(* tracker-collector (src/src/lib.rs): the fetch-and-merge pipeline        *)
(* (get_trackers, parse_tracker), the two entry points (fetch, scheduled)  *)
(* and the two aria2 RPC transports (change_global_option_http/_ws).       *)
(*                                                                         *)
(* A Rust String is a sequence of one-character strings, so that split,    *)
(* join, contains, starts_with, ends_with and the JSON reading of a        *)
(* payload are computed character by character.                            *)
(***************************************************************************)
EXTENDS Integers, Sequences, FiniteSets, TLC

(***************************************************************************)
(* Bounds of the model.                                                    *)
(***************************************************************************)
\* number of fetchable references the configuration can hold
MaxSources == 2
\* number of items the WebSocket stream can yield in one invocation
MaxFrames == 3

(***************************************************************************)
(* Characters and string operations of std::str.                           *)
(***************************************************************************)
NL == "\n"
DQ == "\""
BS == "\\"
Comma == <<",">>
BlankLine == <<NL, NL>>
announce == <<"a", "n", "n", "o", "u", "n", "c", "e">>
http == <<"h", "t", "t", "p">>

\* the characters strings are built from, in code-point order
Alphabet ==
    <<NL, " ", DQ, ",", "/", "1", "2", "3", "4", "5", "6", "7", "8", "9", ":", "[", BS,
      "]",
      "a", "b", "c", "d", "e", "h", "k", "n", "o", "p", "r", "s", "t", "u",
      "w", "x", "{", "}">>

Rank(c) == CHOOSE i \in 1..Len(Alphabet) : Alphabet[i] = c

Range(f) == {f[i] : i \in DOMAIN f}

MatchAt(s, p, i) ==
    /\ i >= 1
    /\ i + Len(p) - 1 <= Len(s)
    /\ SubSeq(s, i, i + Len(p) - 1) = p

\* str::starts_with
StartsWith(s, p) == MatchAt(s, p, 1)

\* str::ends_with
EndsWith(s, p) == MatchAt(s, p, Len(s) - Len(p) + 1)

\* str::contains
Contains(s, p) == \E i \in 1..Len(s) : MatchAt(s, p, i)

\* position of the first occurrence of p in s, 0 when there is none
Find(s, p) ==
    IF Contains(s, p)
    THEN CHOOSE i \in 1..Len(s) :
            /\ MatchAt(s, p, i)
            /\ \A j \in 1..(i - 1) : ~MatchAt(s, p, j)
    ELSE 0

\* str::split(p).collect::<Vec<_>>(): the pieces between the successive,
\* non-overlapping occurrences of p, empty pieces included
RECURSIVE Split(_, _)
Split(s, p) ==
    LET i == Find(s, p)
    IN  IF i = 0
        THEN <<s>>
        ELSE <<SubSeq(s, 1, i - 1)>> \o Split(SubSeq(s, i + Len(p), Len(s)), p)

\* [String]::join(sep)
RECURSIVE Join(_, _)
Join(v, sep) ==
    IF v = <<>> THEN <<>>
    ELSE IF Len(v) = 1 THEN v[1]
    ELSE v[1] \o sep \o Join(Tail(v), sep)

(***************************************************************************)
(* DashSet<String>: the entries, kept without duplicates, in the order an  *)
(* iteration yields them.  The order comes from the hash of each entry;    *)
(* nothing in the program but join observes it, and it is modelled as one  *)
(* fixed total order of the strings.                                       *)
(***************************************************************************)
RECURSIVE HashLess(_, _)
HashLess(s, t) ==
    IF t = <<>> THEN FALSE
    ELSE IF s = <<>> THEN TRUE
    ELSE IF s[1] = t[1] THEN HashLess(Tail(s), Tail(t))
    ELSE Rank(s[1]) < Rank(t[1])

\* a plain push, as a Vec would do: the entry is stored again
InsertNoCheck(set, x) ==
    LET k == Cardinality({i \in 1..Len(set) : ~HashLess(x, set[i])})
    IN  SubSeq(set, 1, k) \o <<x>> \o SubSeq(set, k + 1, Len(set))

\* DashSet::insert: an entry equal to a stored one is not stored again
Insert(set, x) ==
    IF \E i \in 1..Len(set) : set[i] = x
    THEN set
    ELSE LET k == Cardinality({i \in 1..Len(set) : HashLess(set[i], x)})
         IN  SubSeq(set, 1, k) \o <<x>> \o SubSeq(set, k + 1, Len(set))

\* Extend::extend: insert every item of the iteration
RECURSIVE Extend(_, _)
Extend(set, items) ==
    IF items = <<>> THEN set
    ELSE Extend(Insert(set, Head(items)), Tail(items))

\* FromIterator::from_iter (collect)
Collect(items) == Extend(<<>>, items)

(***************************************************************************)
(* serde_json::from_str::<Trackers>: a JSON object whose members are       *)
(* arrays of strings, with exactly one member named trackers.  Members of  *)
(* another name are skipped, a second trackers member, a missing one, a    *)
(* raw control character inside a string and trailing characters are       *)
(* errors; whitespace between tokens is skipped.                           *)
(***************************************************************************)
trackersKey == <<"t", "r", "a", "c", "k", "e", "r", "s">>

ParseFail == [ok |-> FALSE, val |-> <<>>, next |-> 0]

At(s, i) == IF i >= 1 /\ i <= Len(s) THEN s[i] ELSE "EOF"

RECURSIVE SkipWs(_, _)
SkipWs(s, i) == IF At(s, i) \in {NL, " "} THEN SkipWs(s, i + 1) ELSE i

\* the characters of a JSON string after its opening quote, unescaped
RECURSIVE ParseStr(_, _, _)
ParseStr(s, i, acc) ==
    LET c == At(s, i)
    IN  IF c = "EOF" THEN ParseFail
        ELSE IF c = DQ THEN [ok |-> TRUE, val |-> acc, next |-> i + 1]
        ELSE IF c = NL THEN ParseFail
        ELSE IF c = BS
        THEN LET e == At(s, i + 1)
             IN  IF e = "n" THEN ParseStr(s, i + 2, Append(acc, NL))
                 ELSE IF e \in {DQ, BS, "/"} THEN ParseStr(s, i + 2, Append(acc, e))
                 ELSE ParseFail
        ELSE ParseStr(s, i + 1, Append(acc, c))

\* the elements of an array of strings, from its first element on
RECURSIVE ParseElems(_, _, _)
ParseElems(s, i, acc) ==
    IF At(s, i) # DQ THEN ParseFail
    ELSE LET r == ParseStr(s, i + 1, <<>>)
             k == SkipWs(s, r.next)
         IN  IF ~r.ok THEN ParseFail
             ELSE IF At(s, k) = ","
             THEN ParseElems(s, SkipWs(s, k + 1), Append(acc, r.val))
             ELSE IF At(s, k) = "]"
             THEN [ok |-> TRUE, val |-> Append(acc, r.val), next |-> k + 1]
             ELSE ParseFail

ParseStrArray(s, i) ==
    IF At(s, i) # "[" THEN ParseFail
    ELSE LET j == SkipWs(s, i + 1)
         IN  IF At(s, j) = "]"
             THEN [ok |-> TRUE, val |-> <<>>, next |-> j + 1]
             ELSE ParseElems(s, j, <<>>)

\* the members of the object, from a member's key on; seen: a trackers
\* member was read, val: its list
RECURSIVE ParseMembers(_, _, _, _)
ParseMembers(s, i, seen, val) ==
    IF At(s, i) # DQ THEN ParseFail
    ELSE LET key == ParseStr(s, i + 1, <<>>)
             c   == SkipWs(s, key.next)
             arr == ParseStrArray(s, SkipWs(s, c + 1))
             m   == SkipWs(s, arr.next)
             isT == key.val = trackersKey
             seen2 == seen \/ isT
             val2  == IF isT THEN arr.val ELSE val
         IN  IF ~key.ok \/ At(s, c) # ":" THEN ParseFail
             ELSE IF ~arr.ok THEN ParseFail
             ELSE IF isT /\ seen THEN ParseFail
             ELSE IF At(s, m) = ","
             THEN ParseMembers(s, SkipWs(s, m + 1), seen2, val2)
             ELSE IF At(s, m) = "}"
             THEN IF seen2 /\ SkipWs(s, m + 1) = Len(s) + 1
                  THEN [ok |-> TRUE, val |-> val2, next |-> Len(s) + 1]
                  ELSE ParseFail
             ELSE ParseFail

\* Result<Trackers, _>: val is the trackers field, a DashSet<String>
from_str_Trackers(s) ==
    LET i == SkipWs(s, 1)
        r == ParseMembers(s, SkipWs(s, i + 1), FALSE, <<>>)
    IN  IF At(s, i) # "{" THEN [ok |-> FALSE, val |-> <<>>]
        ELSE IF r.ok THEN [ok |-> TRUE, val |-> Collect(r.val)]
        ELSE [ok |-> FALSE, val |-> <<>>]

\* the comma test made before the JSON reading
parse_tracker_CommaFirst(trackers_list) ==
    LET json == from_str_Trackers(trackers_list)
    IN  IF Contains(trackers_list, Comma)
        THEN [ok |-> TRUE, trackers |-> Collect(Split(trackers_list, Comma))]
        ELSE IF json.ok
        THEN [ok |-> TRUE, trackers |-> json.val]
        ELSE IF Contains(trackers_list, BlankLine)
        THEN [ok |-> TRUE, trackers |-> Collect(Split(trackers_list, BlankLine))]
        ELSE [ok |-> FALSE, trackers |-> <<>>]

\* fn parse_tracker: the three shapes in the order of the code; ok = FALSE
\* is the panic "Invalid tracker list format"
parse_tracker(trackers_list) ==
    LET json == from_str_Trackers(trackers_list)
    IN  IF json.ok
        THEN [ok |-> TRUE, trackers |-> json.val]
        ELSE IF Contains(trackers_list, Comma)
        THEN [ok |-> TRUE, trackers |-> Collect(Split(trackers_list, Comma))]
        ELSE IF Contains(trackers_list, BlankLine)
        THEN [ok |-> TRUE, trackers |-> Collect(Split(trackers_list, BlankLine))]
        ELSE [ok |-> FALSE, trackers |-> <<>>]

(***************************************************************************)
(* Option<T> and serde_json::Value.                                        *)
(***************************************************************************)
None == [some |-> FALSE]
Some(x) == [some |-> TRUE, v |-> x]

JStr(s) == [t |-> "str", s |-> s]
JNum(n) == [t |-> "num", n |-> n]
JObj(m) == [t |-> "obj", m |-> m]
JArr(a) == [t |-> "arr", a |-> a]
\* a JSON string whose characters matter (a Rust String put into json!)
JText(c) == [t |-> "text", c |-> c]

\* Value::get(key): None on a value that is no object or has no such key
Get(value, key) ==
    IF value.t = "obj" /\ key \in DOMAIN value.m THEN Some(value.m[key]) ELSE None

\* Option<&Value>::and_then(|v| v.as_str())
AndThenAsStr(opt) ==
    IF opt.some /\ opt.v.t = "str" THEN Some(opt.v.s) ELSE None

(***************************************************************************)
(* The inputs of one invocation: the configured source descriptors         *)
(* (trackers.yml), the secrets of the environment, the request path, what  *)
(* the sources answer and what the daemon answers.                         *)
(***************************************************************************)
Digit == <<"1", "2", "3", "4", "5", "6", "7", "8", "9">>

\* two trackers, and a string with a comma and one with a blank line in it
udp == <<"u", "d", "p", ":", "/", "/">>
TrA == udp \o <<"a", "/">> \o announce
TrB == udp \o <<"b", "/">> \o announce
TrComma == <<"c", ",", "d">>
TrBlank == <<"c", NL, NL, "d">>

\* the fetchable references of the configuration
Url(i) == <<"h", "t", "t", "p", ":", "/", "/", "s", Digit[i]>>
Urls == {Url(i) : i \in 1..MaxSources}

\* a descriptor that neither ends with announce nor is an absolute URL
Bare == <<"x">>

Descriptors == {TrA, Bare} \cup Urls

RECURSIVE SetToSeq(_)
SetToSeq(S) ==
    IF S = {} THEN <<>>
    ELSE LET x == CHOOSE y \in S : TRUE IN <<x>> \o SetToSeq(S \ {x})

\* Trackers.trackers as serde_yaml reads it: a DashSet of the descriptors
Configs == {Collect(SetToSeq(S)) : S \in SUBSET Descriptors}

\* a JSON string literal and a document {"<key>":[...]} as a source sends it
RECURSIVE Escape(_)
Escape(s) ==
    IF s = <<>> THEN <<>>
    ELSE (IF Head(s) = NL THEN <<BS, "n">>
          ELSE IF Head(s) \in {DQ, BS} THEN <<BS, Head(s)>>
          ELSE <<Head(s)>>) \o Escape(Tail(s))

Quoted(s) == <<DQ>> \o s \o <<DQ>>

RECURSIVE MapSeq(_, _)
MapSeq(Op(_), v) == IF v = <<>> THEN <<>> ELSE <<Op(Head(v))>> \o MapSeq(Op, Tail(v))

JsonString(s) == Quoted(Escape(s))
JsonDoc(key, list) ==
    <<"{">> \o Quoted(key) \o <<":", "[">>
        \o Join(MapSeq(JsonString, list), Comma) \o <<"]", "}">>
\* the same document with the strings written raw, which is no JSON when a
\* string holds a line break
RawDoc(key, list) ==
    <<"{">> \o Quoted(key) \o <<":", "[">>
        \o Join(MapSeq(Quoted, list), Comma) \o <<"]", "}">>

\* the lists a source can put into a document
JsonLists == {<<TrA, TrB>>, <<TrB, TrB>>, <<TrComma>>, <<TrBlank>>, <<>>}

\* the bodies a source can answer with: documents with a trackers member
\* (one followed by a line break), a document without one, a document that
\* is no JSON, comma text, blank-line text, each also with a trailing
\* separator, a single line and the empty body
Bodies ==
    { JsonDoc(trackersKey, l) : l \in JsonLists \ {<<TrB, TrB>>} }
    \cup
    { JsonDoc(trackersKey, <<TrB, TrB>>) \o <<NL>>,
      JsonDoc(<<"x">>, <<TrA>>),
      RawDoc(trackersKey, <<TrBlank>>),
      Join(<<TrA, TrB>>, Comma),
      Join(<<TrA, <<>>>>, Comma),
      Join(<<TrA, TrB>>, BlankLine),
      Join(<<TrB, <<>>>>, BlankLine),
      TrA,
      <<>> }

\* the HTTP statuses a source can answer with
Statuses == {200, 404}

\* ARIA2_URL and SECRET_KEY
Aria2Urls ==
    { http \o <<":", "/", "/", "h">>,
      http \o <<"s", ":", "/", "/", "h">>,
      <<"w", "s", ":", "/", "/", "h">>,
      <<"w", "s", "s", ":", "/", "/", "h">> }
SecretKeys == {<<"k">>}
Envs ==
    [ARIA2_URL : {None} \cup {Some(u) : u \in Aria2Urls},
     SECRET_KEY : {None} \cup {Some(k) : k \in SecretKeys}]

\* the path of an inbound read request
Paths == {<<"/">>, <<"/", "x">>}

\* what the daemon can answer or push
ReplyResult == JObj([id |-> JStr("cron"), result |-> JStr("OK")])
ReplyError == JObj([id |-> JStr("cron"), error |-> JStr("Unauthorized")])
ReplyBare == JObj([id |-> JStr("cron")])
Notification == JObj([method |-> JStr("aria2.onDownloadStart")])
OtherId == JObj([id |-> JStr("other"), result |-> JStr("OK")])
NumericId == JObj([id |-> JNum(1), result |-> JStr("OK")])
NotObject == JStr("cron")

JsonValues ==
    {ReplyResult, ReplyError, ReplyBare, Notification, OtherId, NumericId, NotObject}

\* the text of a message: the serialization of a JSON value, or no JSON
Text(value) == [json |-> TRUE, v |-> value]
NotJson == [json |-> FALSE]
Texts == {Text(v) : v \in JsonValues} \cup {NotJson}

\* serde_json::from_str::<Value>
from_str_Value(text) == IF text.json THEN Some(text.v) ELSE None
\* Value::to_string
to_string(value) == Text(value)

\* what rx.next() can yield: Some(Ok(msg)), Some(Err(_)), None
StreamItems ==
    {[kind |-> "msg", text |-> x] : x \in Texts}
        \cup {[kind |-> "err", text |-> NotJson], [kind |-> "end", text |-> NotJson]}

(***************************************************************************)
(* State of one invocation of the worker.                                  *)
(***************************************************************************)
VARIABLES
    event,          \* "fetch" (inbound read request) or "scheduled" (cron)
    path,           \* req.uri().path() of the read request
    env,            \* the secrets ARIA2_URL and SECRET_KEY
    sources,        \* the descriptors of trackers.yml
    pc,             \* where the invocation stands
    trackers_set,   \* the set shared by the fetch tasks (Arc<Mutex<DashSet>>)
    lock,           \* who holds a guard of the Mutex: fetch tasks, "main"
    tasks,          \* per fetchable reference: where its task stands, the
                    \* status of its response, the text of the body and
                    \* the trackers parsed from it
    requested,      \* the references an outbound read request was issued for
    trackers,       \* what get_trackers returned
    response,       \* the body of Response::ok
    pay_load,       \* the JSON-RPC envelope built by scheduled
    posted,         \* the bodies POSTed to the daemon
    connects,       \* the WebSocket connections opened
    sent,           \* the text frames sent on the WebSocket
    rx,             \* the receive task: "idle", "run", "done"
    tx,             \* the send task: "idle", "run", "done"
    nread,          \* the items rx.next() has yielded
    discarded,      \* the number of frames the receive loop passed over
    passed,         \* the frames the receive loop passed over
    matched,        \* the frame the receive loop stopped at
    last,           \* what rx.next() yielded last: "none" so far, "json" or
                    \* "notjson" (a message), "err", "end"
    reply,          \* the document the POST was answered with
    log             \* the outcomes reported by info!("Result"/"Response" or
                    \* "Error")

inputVars == <<event, path, env, sources>>
fetchVars == <<trackers_set, lock, tasks, requested, trackers, response>>
rpcVars == <<pay_load, posted, connects, sent, reply>>
wsVars == <<rx, tx, nread, discarded, passed, matched, last>>
vars == <<event, path, env, sources, pc, trackers_set, lock, tasks, requested,
          trackers, response, pay_load, posted, connects, sent, rx, tx,
          nread, discarded, passed, matched, last, reply, log>>

NoTask == [pc |-> "none", status |-> 0, text |-> <<>>, trackers |-> <<>>]

Init ==
    /\ event \in {"fetch", "scheduled"}
    /\ path \in (IF event = "fetch" THEN Paths ELSE {<<>>})
    /\ env \in (IF event = "scheduled" THEN Envs
                ELSE {[ARIA2_URL |-> None, SECRET_KEY |-> None]})
    /\ sources \in Configs
    /\ pc = "start"
    /\ trackers_set = <<>>
    /\ lock = {}
    /\ tasks = [u \in Urls |-> NoTask]
    /\ requested = <<>>
    /\ trackers = None
    /\ response = None
    /\ pay_load = None
    /\ posted = <<>>
    /\ connects = 0
    /\ sent = <<>>
    /\ rx = "idle"
    /\ tx = "idle"
    /\ nread = 0
    /\ discarded = 0
    /\ passed = {}
    /\ matched = None
    /\ last = "none"
    /\ reply = None
    /\ log = <<>>

(***************************************************************************)
(* A panic (unwrap or expect on an error, panic!) ends the invocation: the *)
(* worker is built for wasm, where a panic aborts the instance and no      *)
(* pending task runs again.                                                *)
(***************************************************************************)
Panic == pc' = "aborted"

\* Iterator::filter over a Vec
RECURSIVE Filter(_, _)
Filter(Keep(_), v) ==
    IF v = <<>> THEN <<>>
    ELSE (IF Keep(Head(v)) THEN <<Head(v)>> ELSE <<>>) \o Filter(Keep, Tail(v))

\* the suffix written with a trailing slash
IsLiteralSlash(tracker) == EndsWith(tracker, announce \o <<"/">>)
\* line 99, the predicate of partition: a descriptor is a literal tracker
IsLiteral(tracker) == EndsWith(tracker, announce)
IsFetchable(tracker) == ~IsLiteral(tracker)

\* Request::new(url, Method::Get): the runtime refuses what is no absolute URL
RequestNewOk(url) == Contains(url, <<":", "/", "/">>)

(***************************************************************************)
(* get_trackers, up to the first poll of join_all: the descriptors are     *)
(* partitioned, the literals collected into the shared set, one request    *)
(* built per fetchable reference, and every task polled once, which issues *)
(* its request.                                                            *)
(***************************************************************************)
EnterGetTrackers ==
    LET trackers_vec == Filter(IsLiteral, sources)
        request == Filter(IsFetchable, sources)
    IN  IF \E i \in 1..Len(request) : ~RequestNewOk(request[i])
        THEN /\ Panic
             /\ UNCHANGED <<trackers_set, tasks, requested>>
        ELSE /\ trackers_set' = Collect(trackers_vec)
             /\ tasks' = [u \in Urls |->
                            IF u \in Range(request)
                            THEN [NoTask EXCEPT !.pc = "send"]
                            ELSE NoTask]
             /\ requested' = request
             /\ pc' = "join"

\* #[event(fetch)], up to the await of get_trackers
FetchEvent ==
    /\ pc = "start"
    /\ event = "fetch"
    /\ EnterGetTrackers
    /\ UNCHANGED <<inputVars, lock, trackers, response, rpcVars, wsVars, log>>

\* lines 52-61: the two secrets are read (expect) before get_trackers is called
\* the secrets are read after get_trackers, not before
ScheduledEventBodyLateSecrets == EnterGetTrackers

ScheduledEventBody ==
    IF env.ARIA2_URL.some /\ env.SECRET_KEY.some
    THEN EnterGetTrackers
    ELSE Panic /\ UNCHANGED <<trackers_set, tasks, requested>>

\* #[event(scheduled)], up to the await of get_trackers
ScheduledEvent ==
    /\ pc = "start"
    /\ event = "scheduled"
    /\ ScheduledEventBody
    /\ UNCHANGED <<inputVars, lock, trackers, response, rpcVars, wsVars, log>>

(***************************************************************************)
(* One fetch task (lines 109-114).                                         *)
(***************************************************************************)
\* Fetch::Request(request).send() resolves with a response, of any status
SendOk(u) ==
    /\ pc = "join"
    /\ tasks[u].pc = "send"
    /\ \E status \in Statuses :
          tasks' = [tasks EXCEPT ![u].pc = "text", ![u].status = status]
    /\ UNCHANGED <<inputVars, pc, trackers_set, lock, requested, trackers,
                   response, rpcVars, wsVars, log>>

\* the error of send or of text is swallowed and the task ends
TaskErrIgnored(u) ==
    /\ tasks' = [tasks EXCEPT ![u].pc = "failed"]
    /\ pc' = pc

\* .unwrap() on the error of send or of text
TaskErr(u) ==
    /\ tasks' = [tasks EXCEPT ![u].pc = "failed"]
    /\ Panic

\* Fetch::Request(request).send() fails
SendErr(u) ==
    /\ pc = "join"
    /\ tasks[u].pc = "send"
    /\ TaskErr(u)
    /\ UNCHANGED <<inputVars, trackers_set, lock, requested, trackers, response,
                   rpcVars, wsVars, log>>

\* response.text() fails
TextErr(u) ==
    /\ pc = "join"
    /\ tasks[u].pc = "text"
    /\ TaskErr(u)
    /\ UNCHANGED <<inputVars, trackers_set, lock, requested, trackers, response,
                   rpcVars, wsVars, log>>

\* the guard lives on after the statement
LockExtendKeepsGuard(u, items) ==
    /\ lock = {}
    /\ trackers_set' = Extend(trackers_set, items)
    /\ lock' = {u}

\* line 113: lock() gets the guard when nobody holds one (it would block
\* otherwise), the set is extended, and the guard, a temporary, is dropped
\* at the end of the statement
LockExtend(u, items) ==
    /\ lock = {}
    /\ trackers_set' = Extend(trackers_set, items)
    /\ lock' = {}

\* the rest of the task once text() has resolved: parse_tracker, then
\* lock, extend, unlock, with no await in between
ParseAndExtend(u, text) ==
    LET parsed == parse_tracker(text)
    IN  IF parsed.ok
        THEN /\ LockExtend(u, parsed.trackers)
             /\ tasks' = [tasks EXCEPT ![u].pc = "done", ![u].text = text,
                                       ![u].trackers = parsed.trackers]
             /\ pc' = pc
        ELSE /\ tasks' = [tasks EXCEPT ![u].pc = "failed", ![u].text = text]
             /\ Panic
             /\ UNCHANGED <<trackers_set, lock>>

TextOk(u) ==
    /\ pc = "join"
    /\ tasks[u].pc = "text"
    /\ \E text \in Bodies : ParseAndExtend(u, text)
    /\ UNCHANGED <<inputVars, requested, trackers, response, rpcVars, wsVars, log>>

(***************************************************************************)
(* join_all has resolved: get_trackers returns a clone of the shared set,  *)
(* and the caller runs on to its next await.                               *)
(***************************************************************************)
AllTasksDone == \A u \in Urls : tasks[u].pc \in {"none", "done"}

\* the separator of the other paths used for "/" too
SpilterAlwaysBlank == BlankLine
\* line 35
Spilter == IF path = <<"/">> THEN Comma ELSE BlankLine

\* the option is sent with no tracker in it
PayLoadNoTrackers(secret_key, joined) ==
    JObj([jsonrpc |-> JStr("2.0"),
          method |-> JStr("aria2.changeGlobalOption"),
          id |-> JStr("cron"),
          params |-> JArr(<<JText(<<"t", "o", "k", "e", "n", ":">> \o secret_key),
                            JObj("bt-tracker" :> JText(<<>>))>>)])

\* lines 73-83
PayLoad(secret_key, joined) ==
    JObj([jsonrpc |-> JStr("2.0"),
          method |-> JStr("aria2.changeGlobalOption"),
          id |-> JStr("cron"),
          params |-> JArr(<<JText(<<"t", "o", "k", "e", "n", ":">> \o secret_key),
                            JObj("bt-tracker" :> JText(joined))>>)])

\* line 84: the test that picks the transport
UsesHttpOnlyTls(aria2_url) == StartsWith(aria2_url, http \o <<"s">>)
UsesHttp(aria2_url) == StartsWith(aria2_url, http)

\* lines 36-46: the rest of fetch
FetchRespond(set) ==
    /\ response' = Some(Join(set, Spilter))
    /\ pc' = "done"
    /\ UNCHANGED <<rpcVars>>

\* lines 63-88 and the first poll of the transport: the POST is issued, or
\* the WebSocket connection is started
ScheduledSync(set) ==
    LET pl == PayLoad(env.SECRET_KEY.v, Join(set, Comma))
    IN  /\ pay_load' = Some(pl)
        /\ IF UsesHttp(env.ARIA2_URL.v)
           THEN /\ posted' = Append(posted, to_string(pl))
                /\ pc' = "post"
                /\ UNCHANGED connects
           ELSE /\ connects' = connects + 1
                /\ pc' = "connect"
                /\ UNCHANGED posted
        /\ UNCHANGED <<response, sent, reply>>

\* line 120: lock() gets the guard when nobody holds one, the set is
\* cloned, and the guard is dropped at the end of the statement
LockClone ==
    /\ lock = {}
    /\ trackers' = Some(trackers_set)
    /\ lock' = {}

\* join_all resolves as soon as one task has completed
JoinAllFirst ==
    /\ pc = "join"
    /\ \E u \in Urls : tasks[u].pc = "done"
    /\ LockClone
    /\ IF event = "fetch"
       THEN FetchRespond(trackers_set)
       ELSE ScheduledSync(trackers_set)

\* lines 118-121
JoinAllBody ==
    /\ pc = "join"
    /\ AllTasksDone
    /\ LockClone
    /\ IF event = "fetch"
       THEN FetchRespond(trackers_set)
       ELSE ScheduledSync(trackers_set)

\* the tasks are consumed by join_all
JoinAll ==
    /\ JoinAllBody
    /\ tasks' = [u \in Urls |-> NoTask]
    /\ UNCHANGED <<inputVars, trackers_set, requested, wsVars, log>>

(***************************************************************************)
(* change_global_option_http.                                              *)
(***************************************************************************)
\* lines 145-152 and 170-177: the outcome reported for a document
Dispatch(value) == IF Get(value, "result").some THEN "result" ELSE "error"

\* send() fails: expect("Failed to send request")
PostErr ==
    /\ pc = "post"
    /\ Panic
    /\ UNCHANGED <<inputVars, fetchVars, rpcVars, wsVars, log>>

\* send() resolves with a response
PostOk ==
    /\ pc = "post"
    /\ pc' = "post_json"
    /\ UNCHANGED <<inputVars, fetchVars, rpcVars, wsVars, log>>

\* json() fails (the body cannot be read or is no JSON): unwrap
JsonErr ==
    /\ pc = "post_json"
    /\ Panic
    /\ UNCHANGED <<inputVars, fetchVars, rpcVars, wsVars, log>>

\* an error reply makes the client POST again
HttpRetryOnError(value) ==
    /\ reply' = Some(value)
    /\ log' = Append(log, Dispatch(value))
    /\ IF Dispatch(value) = "error" /\ Len(posted) < 2
       THEN posted' = Append(posted, to_string(pay_load.v)) /\ pc' = "post"
       ELSE pc' = "done" /\ UNCHANGED posted

\* lines 145-152
HttpDispatch(value) ==
    /\ reply' = Some(value)
    /\ log' = Append(log, Dispatch(value))
    /\ pc' = "done"
    /\ UNCHANGED posted

\* json() resolves with a document
JsonOk ==
    /\ pc = "post_json"
    /\ \E value \in JsonValues : HttpDispatch(value)
    /\ UNCHANGED <<inputVars, fetchVars, pay_load, connects, sent, wsVars>>

(***************************************************************************)
(* change_global_option_ws.                                                *)
(***************************************************************************)
\* connect fails: expect("Failed to connect to websocket")
ConnectErr ==
    /\ pc = "connect"
    /\ Panic
    /\ UNCHANGED <<inputVars, fetchVars, rpcVars, wsVars, log>>

\* connect resolves; join polls the receive task and the send task
ConnectOk ==
    /\ pc = "connect"
    /\ pc' = "ws"
    /\ rx' = "run"
    /\ tx' = "run"
    /\ UNCHANGED <<inputVars, fetchVars, rpcVars, nread, discarded, passed,
                   matched, last, log>>

\* line 169: the frame is the reply to this client's request
IsReply(msg) == AndThenAsStr(Get(msg, "id")) = Some("cron")

\* the loop goes on reading after the match
OnMessageNoBreak(msg) ==
    IF IsReply(msg)
    THEN /\ matched' = Some(msg)
         /\ log' = Append(log, Dispatch(msg))
         /\ UNCHANGED <<pc, rx, discarded, passed>>
    ELSE /\ discarded' = discarded + 1
         /\ passed' = passed \cup {msg}
         /\ UNCHANGED <<pc, rx, matched, log>>

\* lines 169-179: one parsed frame in the receive loop
OnMessage(msg) ==
    IF IsReply(msg)
    THEN /\ matched' = Some(msg)
         /\ log' = Append(log, Dispatch(msg))
         /\ rx' = "done"
         /\ UNCHANGED <<pc, discarded, passed>>
    ELSE /\ discarded' = discarded + 1
         /\ passed' = passed \cup {msg}
         /\ UNCHANGED <<pc, rx, matched, log>>

\* a frame that is not JSON is skipped like a frame with another id
OnItemSkipsBad(item) ==
    IF item.kind = "end"
    THEN rx' = "done" /\ UNCHANGED <<pc, discarded, passed, matched, log>>
    ELSE IF item.kind = "err"
    THEN Panic /\ UNCHANGED <<rx, discarded, passed, matched, log>>
    ELSE LET msg == from_str_Value(item.text)
         IN  IF msg.some
             THEN OnMessage(msg.v)
             ELSE /\ discarded' = discarded + 1
                  /\ UNCHANGED <<pc, rx, passed, matched, log>>

\* lines 165-180: rx.next() has yielded an item
OnItem(item) ==
    IF item.kind = "end"
    THEN rx' = "done" /\ UNCHANGED <<pc, discarded, passed, matched, log>>
    ELSE IF item.kind = "err"
    THEN Panic /\ UNCHANGED <<rx, discarded, passed, matched, log>>
    ELSE LET msg == from_str_Value(item.text)
         IN  IF msg.some
             THEN OnMessage(msg.v)
             ELSE Panic /\ UNCHANGED <<rx, discarded, passed, matched, log>>

\* what an item of the stream is: the end, an error, a message whose text
\* is JSON or one whose text is not
KindOf(item) ==
    IF item.kind = "msg"
    THEN (IF item.text.json THEN "json" ELSE "notjson")
    ELSE item.kind

Receive ==
    /\ pc = "ws"
    /\ rx = "run"
    /\ nread < MaxFrames
    /\ nread' = nread + 1
    /\ \E item \in StreamItems : last' = KindOf(item) /\ OnItem(item)
    /\ UNCHANGED <<inputVars, fetchVars, rpcVars, tx>>

\* the send task goes on sending after its frame
SendFrameOkAgain ==
    /\ pc = "ws"
    /\ tx = "run"
    /\ Len(sent) <= 1
    /\ sent' = Append(sent, to_string(pay_load.v))
    /\ tx' = IF sent = <<>> THEN "run" ELSE "done"
    /\ UNCHANGED <<inputVars, fetchVars, pc, pay_load, posted, connects, reply,
                   rx, nread, discarded, passed, matched, last, log>>

\* the send is dropped once the receive loop has matched
SendFrameOkUnlessMatched ==
    /\ pc = "ws"
    /\ tx = "run"
    /\ sent' = IF matched.some THEN sent ELSE Append(sent, to_string(pay_load.v))
    /\ tx' = "done"
    /\ UNCHANGED <<inputVars, fetchVars, pc, pay_load, posted, connects, reply,
                   rx, nread, discarded, passed, matched, last, log>>

\* lines 184-187: tx.send resolves, the frame is on the connection
SendFrameOk ==
    /\ pc = "ws"
    /\ tx = "run"
    /\ sent' = Append(sent, to_string(pay_load.v))
    /\ tx' = "done"
    /\ UNCHANGED <<inputVars, fetchVars, pc, pay_load, posted, connects, reply,
                   rx, nread, discarded, passed, matched, last, log>>

\* tx.send fails: expect("Failed to send message")
SendFrameErr ==
    /\ pc = "ws"
    /\ tx = "run"
    /\ Panic
    /\ UNCHANGED <<inputVars, fetchVars, rpcVars, wsVars, log>>

\* select in place of join: the function returns with the receive task
WsSelect ==
    /\ pc = "ws"
    /\ rx = "done"
    /\ pc' = "done"
    /\ UNCHANGED <<inputVars, fetchVars, rpcVars, wsVars, log>>

\* line 190: join resolves when both tasks have completed
WsJoin ==
    /\ pc = "ws"
    /\ rx = "done"
    /\ tx = "done"
    /\ pc' = "done"
    /\ UNCHANGED <<inputVars, fetchVars, rpcVars, wsVars, log>>

Next ==
    \/ FetchEvent
    \/ ScheduledEvent
    \/ \E u \in Urls : SendOk(u)
    \/ \E u \in Urls : SendErr(u)
    \/ \E u \in Urls : TextOk(u)
    \/ \E u \in Urls : TextErr(u)
    \/ JoinAll
    \/ PostErr
    \/ PostOk
    \/ JsonErr
    \/ JsonOk
    \/ ConnectErr
    \/ ConnectOk
    \/ Receive
    \/ SendFrameOk
    \/ SendFrameErr
    \/ WsJoin

Spec == Init /\ [][Next]_vars

(***************************************************************************)
(* Properties.                                                             *)
(***************************************************************************)
\* the frame carries the string "cron" as its id
IdIsCron(frame) ==
    /\ frame.t = "obj"
    /\ "id" \in DOMAIN frame.m
    /\ frame.m.id = JStr("cron")

HasResult(frame) == frame.t = "obj" /\ "result" \in DOMAIN frame.m

\* C1: in the WebSocket sync, every frame the receive loop passed over has
\* an id other than the string "cron" (or none), and no outcome is reported
\* while only such frames were read, however many; the frame the loop stops
\* at has the id "cron", exactly one outcome is reported for it (result when
\* it has a result key, error otherwise), and it is the last item read.
C1_FirstCronFrameOnly ==
    /\ \A f \in passed : ~IdIsCron(f)
    /\ Cardinality(passed) <= discarded
    /\ (connects = 1 /\ ~matched.some) => log = <<>>
    /\ matched.some =>
          /\ IdIsCron(matched.v)
          /\ log = <<IF HasResult(matched.v) THEN "result" ELSE "error">>
          /\ rx = "done"
          /\ nread = discarded + 1

C1_Witness ==
    /\ pc = "done"
    /\ matched.some
    /\ discarded = 2
    /\ Cardinality(passed) = 2
    /\ log = <<"error">>

\* C2: once a fetch task has failed (send or text failed, or the body has
\* none of the three shapes) the invocation is aborted and get_trackers has
\* returned nothing: no response body, no envelope, nothing sent to the
\* daemon, whatever the other tasks have done.
C2_SourceFailureAbortsAll ==
    (\E u \in Urls : tasks[u].pc = "failed") =>
        /\ pc = "aborted"
        /\ ~trackers.some
        /\ ~response.some
        /\ ~pay_load.some
        /\ posted = <<>>
        /\ connects = 0
        /\ sent = <<>>

C2_Witness ==
    /\ pc = "aborted"
    /\ \E u, v \in Urls :
          /\ tasks[u].pc = "failed"
          /\ tasks[u].text = TrA
          /\ tasks[v].pc = "done"
          /\ tasks[v].trackers # <<>>

\* C3: a fetch task whose response has a non-2xx status never completes:
\* its body is not parsed and merged into the shared set.
C3_Non2xxIsFailure ==
    \A u \in Urls : tasks[u].pc = "done" => tasks[u].status \in 200..299

NoDuplicates(v) == \A i, j \in 1..Len(v) : i # j => v[i] # v[j]

\* C4: neither the shared set nor the collection get_trackers returns holds
\* a string twice.
C4_NoDuplicates ==
    /\ NoDuplicates(trackers_set)
    /\ trackers.some => NoDuplicates(trackers.v)

\* the same tracker is a literal and was parsed from the bodies of two sources
C4_Witness ==
    /\ pc = "join"
    /\ AllTasksDone
    /\ TrA \in Range(sources)
    /\ \E u, v \in Urls :
          /\ u # v
          /\ TrA \in Range(tasks[u].trackers)
          /\ TrA \in Range(tasks[v].trackers)
    /\ Len(trackers_set) = 2

\* C5: outbound read requests are issued only for configured descriptors
\* that do not end with announce, and every configured descriptor that ends
\* with announce is an entry of the aggregate get_trackers returns.
C5_LiteralsVerbatimNotFetched ==
    /\ \A i \in 1..Len(requested) :
          /\ requested[i] \in Range(sources)
          /\ ~EndsWith(requested[i], announce)
    /\ trackers.some =>
          \A d \in Range(sources) :
             EndsWith(d, announce) => d \in Range(trackers.v)

C5_Witness ==
    /\ trackers.some
    /\ TrA \in Range(sources)
    /\ Len(requested) = 2
    /\ TrA \in Range(trackers.v)

\* the documents with a trackers member, each with the list it was written from
JsonDocs == {[list |-> l, doc |-> JsonDoc(trackersKey, l)] : l \in JsonLists}

\* C6: a task that parsed a body got, for a JSON document with a trackers
\* list, exactly the strings of that list, also when they hold commas or
\* blank lines; for a body that is no such document and holds a comma, the
\* pieces between the commas; and for a body that is no such document and
\* holds no comma, the pieces between the blank lines.
C6_ShapeOrder ==
    \A u \in Urls : tasks[u].pc = "done" =>
        LET text == tasks[u].text
            got == tasks[u].trackers
        IN  /\ \A d \in JsonDocs :
                  text \in {d.doc, d.doc \o <<NL>>} => Range(got) = Range(d.list)
            /\ (~from_str_Trackers(text).ok /\ Contains(text, Comma)) =>
                  got = Collect(Split(text, Comma))
            /\ (~from_str_Trackers(text).ok /\ ~Contains(text, Comma)) =>
                  /\ Contains(text, BlankLine)
                  /\ got = Collect(Split(text, BlankLine))

C6_Witness ==
    \E u \in Urls :
        /\ tasks[u].pc = "done"
        /\ tasks[u].text = JsonDoc(trackersKey, <<TrComma>>)
        /\ tasks[u].trackers = <<TrComma>>

\* the bt-tracker value of the envelope
BtTracker(envelope) == envelope.m.params.a[2].m["bt-tracker"].c

\* splitting what was joined with "," (the body of GET / and the bt-tracker
\* value) gives the members of the aggregate
RoundTrips ==
    /\ (response.some /\ path = <<"/">>) =>
          Range(Split(response.v, Comma)) = Range(trackers.v)
    /\ pay_load.some =>
          Range(Split(BtTracker(pay_load.v), Comma)) = Range(trackers.v)

\* C7, as claimed: the round trip holds for every aggregate returned.
C7_RoundTripAlways == trackers.some => RoundTrips

\* C7, amended: the round trip holds for every returned aggregate that is
\* not empty and has no entry with a comma in it.
C7_RoundTripCommaFree ==
    (/\ trackers.some
     /\ trackers.v # <<>>
     /\ \A e \in Range(trackers.v) : ~Contains(e, Comma)) => RoundTrips

C7_Witness ==
    /\ response.some
    /\ path = <<"/">>
    /\ trackers.v = <<<<>>, TrA, TrB>>
    /\ Range(Split(response.v, Comma)) = {<<>>, TrA, TrB}

\* the scheme of a URL: what stands before the first colon
SchemeOf(url) == SubSeq(url, 1, Find(url, <<":">>) - 1)
HttpSchemes == {http, http \o <<"s">>}

\* C8: an invocation POSTs at most once or connects at most once, never
\* both, also after a failure; it POSTs only when the scheme of ARIA2_URL
\* is http or https and connects only when it is another one; frames are
\* sent only on a connection.
C8_OneTransport ==
    /\ Len(posted) + connects <= 1
    /\ pay_load.some => Len(posted) + connects = 1
    /\ sent # <<>> => connects = 1
    /\ posted # <<>> => SchemeOf(env.ARIA2_URL.v) \in HttpSchemes
    /\ connects = 1 => SchemeOf(env.ARIA2_URL.v) \notin HttpSchemes

\* the connection failed, and nothing was POSTed instead
C8_Witness ==
    /\ pc = "aborted"
    /\ pay_load.some
    /\ connects = 1
    /\ posted = <<>>
    /\ rx = "idle"

\* C9: after a reply without a result key the invocation has sent one
\* request and no other.  Over HTTP it is done, with one POST.  Over the
\* WebSocket the receive task is done, at most one frame was sent, and once
\* the send task is done too exactly one frame was sent and the invocation
\* is not aborted.
C9_ErrorReplyNoRetry ==
    /\ (reply.some /\ ~HasResult(reply.v)) =>
          /\ pc = "done"
          /\ Len(posted) = 1
          /\ connects = 0
          /\ log = <<"error">>
    /\ (matched.some /\ ~HasResult(matched.v)) =>
          /\ rx = "done"
          /\ Len(sent) <= 1
          /\ posted = <<>>
          /\ connects = 1
          /\ log = <<"error">>
          /\ tx = "done" => (pc \in {"ws", "done"} /\ Len(sent) = 1)

C9_Witness ==
    /\ pc = "done"
    /\ matched = Some(ReplyError)
    /\ Len(sent) = 1
    /\ log = <<"error">>

\* C10: every entry of the aggregate get_trackers returns is a non-empty
\* string.
C10_EntriesNonEmpty ==
    trackers.some => \A e \in Range(trackers.v) : e # <<>>

\* C11 as stated: in a WebSocket sync the invocation completes only after
\* a frame whose id is "cron" was read, whatever else the stream yields.
C11_NoCronNeverCompletes ==
    (connects = 1 /\ pc = "done") => matched.some

\* C12 as stated: the receive loop never ends normally without having
\* read a frame whose id is "cron".
C12_LoopEndsOnlyOnMatch ==
    rx = "done" => matched.some

\* what the tasks that have completed parsed out of their sources
Parsed == UNION {Range(tasks[u].trackers) : u \in {v \in Urls : tasks[v].pc = "done"}}

\* the descriptors taken as trackers themselves
Literals == {d \in Range(sources) : EndsWith(d, announce)}

\* C13: get_trackers reads the shared set for its result in a step taken
\* when every fetch task has completed, and whatever the order in which the
\* tasks completed, the set it returns has exactly the literal trackers
\* and the entries parsed from every source that was fetched: none is lost
\* or overwritten.
C13_ReturnAfterAllTasks ==
    [][(~trackers.some /\ trackers'.some) =>
          /\ \A u \in Urls : tasks[u].pc \in {"none", "done"}
          /\ \A u \in Range(requested) : tasks[u].pc = "done"
          /\ Range(trackers'.v) = Literals \cup Parsed
          /\ Range(trackers_set) = Literals \cup Parsed]_vars

C13_Witness ==
    /\ trackers.some
    /\ pc = "done"
    /\ Len(requested) = 2
    /\ {TrComma, TrBlank} \subseteq Range(trackers.v)

\* C14: in one WebSocket sync the client sends at most one frame, and
\* exactly one once its send task is done; the frame is a text frame
\* with the serialized request, whose id is "cron"; nothing is sent
\* before the connection is established, and the frames received change
\* nothing of it.
C14_OneFrameSent ==
    /\ Len(sent) <= 1
    /\ tx = "done" <=> Len(sent) = 1
    /\ (connects = 1 /\ pc = "done") => Len(sent) = 1
    /\ pc \in {"start", "join", "post", "post_json", "connect"} => sent = <<>>
    /\ sent # <<>> =>
          /\ connects = 1
          /\ pay_load.some
          /\ sent[1] = Text(pay_load.v)
          /\ Get(sent[1].v, "id") = Some(JStr("cron"))
          /\ Get(sent[1].v, "method") = Some(JStr("aria2.changeGlobalOption"))

C14_Witness ==
    /\ pc = "done"
    /\ Len(sent) = 1
    /\ nread = MaxFrames
    /\ discarded = MaxFrames - 1
    /\ matched.some

\* C15: the send task and the receive task are started in the same step,
\* once the connection is established, and the invocation completes only
\* when both are done: it has not returned while the loop has matched and
\* the send is pending, nor while the send is done and the loop still
\* waits.
C15_JoinWaitsForBoth ==
    /\ rx = "idle" <=> tx = "idle"
    /\ rx # "idle" => (connects = 1 /\ pc \in {"ws", "done", "aborted"})
    /\ pc = "connect" => (rx = "idle" /\ tx = "idle")
    /\ (connects = 1 /\ pc = "done") => (rx = "done" /\ tx = "done")
    /\ (pc \in {"ws", "done"} /\ (rx = "run" \/ tx = "run")) => pc = "ws"

C15_Witness ==
    /\ pc = "ws"
    /\ tx = "done"
    /\ Len(sent) = 1
    /\ rx = "run"
    /\ nread = MaxFrames
    /\ ~matched.some

\* C16: no task holds the lock of the shared set while it is suspended at
\* its network send or its body read, nor at any other point where control
\* is back with the executor: the guard is taken and dropped inside the
\* extend step and inside the final read.  So at most one guard exists at
\* any time, and a task that reaches its extend step, or get_trackers its
\* final read, finds the lock free and never waits for it.
C16_LockNotHeldAcrossAwait ==
    /\ Cardinality(lock) <= 1
    /\ \A u \in Urls : tasks[u].pc \in {"send", "text"} => u \notin lock
    /\ (\E u \in Urls : tasks[u].pc = "text") => lock = {}
    /\ pc = "join" => lock = {}
    /\ trackers.some => lock = {}

C16_Witness ==
    /\ pc = "join"
    /\ lock = {}
    /\ \E u, v \in Urls :
          /\ tasks[u].pc = "done"
          /\ tasks[u].trackers # <<>>
          /\ Range(tasks[u].trackers) \subseteq Range(trackers_set)
          /\ tasks[v].pc = "text"

\* C17: the request of a sync exists only once get_trackers has returned
\* its aggregate, and its bt-tracker value is the entries of exactly that
\* aggregate joined by commas; whatever reaches the daemon (a POST, a
\* WebSocket connection, a frame) is that request, so when get_trackers
\* has not returned, and so when the fetch-and-merge has aborted, nothing
\* has reached the daemon.
C17_RequestAfterAggregate ==
    /\ pay_load.some =>
          /\ event = "scheduled"
          /\ trackers.some
          /\ trackers.v = trackers_set
          /\ BtTracker(pay_load.v) = Join(trackers.v, Comma)
    /\ (posted # <<>> \/ connects > 0 \/ sent # <<>>) => pay_load.some
    /\ \A i \in 1..Len(posted) : posted[i] = Text(pay_load.v)
    /\ \A i \in 1..Len(sent) : sent[i] = Text(pay_load.v)
    /\ ~trackers.some => (posted = <<>> /\ connects = 0 /\ sent = <<>>)

C17_Witness ==
    /\ pc = "done"
    /\ Len(posted) = 1
    /\ Len(requested) = 2
    /\ Len(trackers.v) >= 3
    /\ BtTracker(pay_load.v) = Join(trackers.v, Comma)

\* C18: in a sync invocation whose environment lacks ARIA2_URL or
\* SECRET_KEY, no request is ever issued: no source is fetched, nothing is
\* posted, no connection is opened and no frame is sent; the invocation
\* aborts in its first step.
C18_MissingSecretAbortsFirst ==
    (event = "scheduled" /\ ~(env.ARIA2_URL.some /\ env.SECRET_KEY.some)) =>
        /\ pc \in {"start", "aborted"}
        /\ requested = <<>>
        /\ \A u \in Urls : tasks[u].pc = "none"
        /\ trackers_set = <<>>
        /\ ~trackers.some
        /\ ~pay_load.some
        /\ posted = <<>>
        /\ connects = 0
        /\ sent = <<>>

C18_Witness ==
    /\ event = "scheduled"
    /\ pc = "aborted"
    /\ env.ARIA2_URL.some
    /\ ~env.SECRET_KEY.some
    /\ \E u \in Urls : u \in Range(sources)
    /\ requested = <<>>

\* C19: when the receive loop gets a receive error, or a frame that is
\* not JSON, before any frame whose id is "cron", the invocation is
\* aborted: the item is not counted among the frames passed over (every
\* earlier item was), the loop has not ended normally, no frame is matched
\* and no outcome is logged, then or later.
C19_BadFrameAborts ==
    (connects = 1 /\ last \in {"err", "notjson"}) =>
        /\ pc = "aborted"
        /\ rx = "run"
        /\ discarded = nread - 1
        /\ ~matched.some
        /\ log = <<>>

C19_Witness ==
    /\ pc = "aborted"
    /\ last = "notjson"
    /\ nread = 2
    /\ discarded = 1
    /\ tx = "done"
    /\ Len(sent) = 1

\* C20: a frame whose id is "cron" is never passed over, whether the send
\* is done or not.  From a state where the loop has matched and the send
\* is still pending, the invocation can only go on by the send: either it
\* fails and aborts, or the request goes out, and in that step and ever
\* after nothing more is read, matched or logged.
C20_MatchBeforeSend ==
    [][/\ \A msg \in passed' : ~IdIsCron(msg)
       /\ matched'.some => (rx' = "done" /\ Len(log') = 1)
       /\ (pc = "ws" /\ matched.some /\ tx = "run") =>
             /\ pc' = "aborted" \/ (tx' = "done"
                                     /\ sent' = <<Text(pay_load.v)>>
                                     /\ pc' = "ws")
             /\ nread' = nread /\ matched' = matched /\ log' = log
             /\ rx' = "done"
       /\ (matched.some /\ tx = "done") =>
             (nread' = nread /\ matched' = matched /\ log' = log
              /\ sent' = sent)]_vars

C20_Witness ==
    /\ pc = "ws"
    /\ nread = 1
    /\ matched = Some(ReplyResult)
    /\ log = <<"result">>
    /\ rx = "done"
    /\ tx = "run"
    /\ sent = <<>>

=============================================================================
